---------------------------- MODULE Spec2Model ----------------------------
(***************************************************************************)
(* A model of viz.py: the image encoder (array2pil), the grid tiler        *)
(* (batch_of_images_to_grid), the label colorizer (viz_segmentation_label) *)
(* and the overlay compositor (viz_overlayed_segmentation_label).          *)
(*                                                                         *)
(* A numpy array is a record [shape, data]: data is the array's elements   *)
(* in C (row-major) order, which is what reshape preserves.  A raised      *)
(* exception is a result record carrying the exception's class name.       *)
(***************************************************************************)
EXTENDS Integers, Sequences, FiniteSets, TLC

VARIABLES
    imgs,       \* grid tiler: the batch argument
    rows,       \* grid tiler: the rows argument
    cols,       \* grid tiler: the cols argument
    grid,       \* grid tiler: the call's outcome
    label,      \* colorizer: the label argument
    colormap,   \* colorizer: the colormap argument
    label_viz,  \* colorizer: the call's outcome (saveto=None)
    x,          \* image encoder: the array argument
    pil,        \* image encoder: the call's outcome
    call,       \* saving calls: each caller's function and arguments
    pc,         \* saving calls: where each caller's call stands
    out,        \* saving calls: each call's outcome
    pic,        \* saving calls: the image each call has built (label_viz, overlay)
    made,       \* saving calls: the directories each call has created
    wrote,      \* saving calls: what each call has written of its file
    dirs,       \* the file system: the directories that exist
    file        \* the file system: the state of the file at the save path

gridVars == <<imgs, rows, cols, grid>>
colorVars == <<label, colormap, label_viz>>
pilVars == <<x, pil>>
saveVars == <<call, pc, out, pic, made, wrote, dirs, file>>
otherVars == <<gridVars, colorVars, pilVars>>
vars == <<gridVars, colorVars, pilVars, saveVars>>

(***************************************************************************)
(* Bounds of the model.                                                    *)
(***************************************************************************)
MaxBatch == 4       \* images in a batch: 0 .. MaxBatch
MaxSide == 2        \* an image's height, width and channel count: 1 .. MaxSide
MaxRank == 5        \* ranks of the array handed to the tiler: 0 .. MaxRank
MaxGrid == 2        \* rows and cols: -1 .. MaxGrid
MaxLabelPixels == 4 \* pixels of a label array: 1 .. MaxLabelPixels
MaxEncSide == 3     \* axis lengths of the array handed to the encoder: 1 .. MaxEncSide
MaxEncRank == 4     \* ranks of the array handed to the encoder: 1 .. MaxEncRank
MaxCallers == 2     \* concurrent callers of the saving functions

(***************************************************************************)
(* Outcomes of a call.                                                     *)
(***************************************************************************)
Pending == [kind |-> "pending", err |-> "", val |-> <<>>]
Return(v) == [kind |-> "return", err |-> "", val |-> v]
Raise(e) == [kind |-> "raise", err |-> e, val |-> <<>>]

(***************************************************************************)
(* numpy arrays.                                                           *)
(***************************************************************************)
Min(a, b) == IF a < b THEN a ELSE b

RECURSIVE Prod(_)
Prod(s) == IF s = <<>> THEN 1 ELSE Head(s) * Prod(Tail(s))

Array(shape, data) == [shape |-> shape, data |-> data]
ndim(a) == Len(a.shape)
Zeros(n) == [p \in 1..n |-> 0]

\* The 0-based flat (C order) offset of the multi-index idx in an array of
\* the given shape.
RECURSIVE Ravel(_, _)
Ravel(idx, shape) ==
    IF idx = <<>> THEN 0
    ELSE Head(idx) * Prod(Tail(shape)) + Ravel(Tail(idx), Tail(shape))

\* The multi-index of the 0-based flat offset q.
RECURSIVE Unravel(_, _)
Unravel(q, shape) ==
    IF shape = <<>> THEN <<>>
    ELSE LET stride == Prod(Tail(shape))
         IN  <<q \div stride>> \o Unravel(q % stride, Tail(shape))

At(a, idx) == a.data[Ravel(idx, a.shape) + 1]

\* A slice that keeps every image.
SliceFirstAxisWhole(a, n) ==
    IF ndim(a) = 0 THEN Raise("IndexError") ELSE Return(a)

\* a[:n] for n >= 0: a slice of the first axis.  A 0-d array has no axis to
\* slice and numpy raises IndexError.
SliceFirstAxis(a, n) ==
    IF ndim(a) = 0 THEN Raise("IndexError")
    ELSE LET keep == Min(Head(a.shape), n)
             rest == Prod(Tail(a.shape))
         IN  Return(Array(<<keep>> \o Tail(a.shape), SubSeq(a.data, 1, keep * rest)))

\* np.expand_dims(a, axis=3) of a rank-3 array.
ExpandDims3(a) == Array(a.shape \o <<1>>, a.data)

\* Padding placed before the batch instead of after it.
PadFirstAxisBefore(a, gap) ==
    IF gap < 0 THEN Raise("ValueError")
    ELSE Return(Array(<<Head(a.shape) + gap>> \o Tail(a.shape),
                      Zeros(gap * Prod(Tail(a.shape))) \o a.data))

\* np.pad(a, [(0, gap), (0,0), ...], mode="constant", constant_values=0):
\* gap zero images appended on the first axis; a negative width is rejected.
PadFirstAxis(a, gap) ==
    IF gap < 0 THEN Raise("ValueError")
    ELSE Return(Array(<<Head(a.shape) + gap>> \o Tail(a.shape),
                      a.data \o Zeros(gap * Prod(Tail(a.shape)))))

\* a.reshape(shape): the same elements in the same C order.
Reshape(a, shape) ==
    IF Prod(shape) # Len(a.data) THEN Raise("ValueError")
    ELSE Return(Array(shape, a.data))

SwapIdx(s, i, j) == [k \in 1..Len(s) |-> IF k = i THEN s[j] ELSE IF k = j THEN s[i] ELSE s[k]]

\* The axes relabelled without moving any element.
SwapaxesShapeOnly(a, ax1, ax2) ==
    Array(SwapIdx(a.shape, ax1 + 1, ax2 + 1), a.data)

\* a.swapaxes(ax1, ax2) (0-based axes), read out in C order, as the reshape
\* that follows it reads it.
Swapaxes(a, ax1, ax2) ==
    LET newShape == SwapIdx(a.shape, ax1 + 1, ax2 + 1)
    IN  Array(newShape,
              [p \in 1..Len(a.data) |->
                  At(a, SwapIdx(Unravel(p - 1, newShape), ax1 + 1, ax2 + 1))])

\* The channel axis kept.
SqueezeAxis2Kept(a) == Return(a)

\* a.squeeze(axis=2) of a rank-3 array.
SqueezeAxis2(a) ==
    IF a.shape[3] # 1 THEN Raise("ValueError")
    ELSE Return(Array(SubSeq(a.shape, 1, 2), a.data))

(***************************************************************************)
(* batch_of_images_to_grid                                                 *)
(***************************************************************************)
\* The grid of the padded rank-4 batch.
GridOfPadded(padded, r, c, n_dims) ==
    LET img_height == padded.shape[2]
        img_width == padded.shape[3]
        n_channels == padded.shape[4]
        five == Reshape(padded, <<r, c, img_height, img_width, n_channels>>)
    IN  IF five.kind = "raise" THEN five
        ELSE LET swapped == Swapaxes(five.val, 1, 2)
                 flat == Reshape(swapped, <<r * img_height, c * img_width, n_channels>>)
             IN  IF flat.kind = "raise" THEN flat
                 ELSE IF n_dims = 3 THEN SqueezeAxis2(flat.val)
                 ELSE flat

batch_of_images_to_grid(a, r, c) ==
    IF ~(r > 0 /\ c > 0) THEN Raise("AssertionError")
    ELSE LET n_cells == r * c
             sliced == SliceFirstAxis(a, n_cells)
         IN  IF sliced.kind = "raise" THEN sliced
             ELSE LET n_dims == ndim(sliced.val)
                  IN  IF ~(n_dims = 3 \/ n_dims = 4) THEN Raise("AssertionError")
                      ELSE LET four == IF n_dims = 3 THEN ExpandDims3(sliced.val)
                                       ELSE sliced.val
                               n_batch == four.shape[1]
                               n_gap == n_cells - n_batch
                               padded == PadFirstAxis(four, n_gap)
                           IN  IF padded.kind = "raise" THEN padded
                               ELSE GridOfPadded(padded.val, r, c, n_dims)

(***************************************************************************)
(* PIL images: [mode, size, px].  size is (width, height); px is the       *)
(* pixels row by row, an integer per pixel in mode "L" and an (r, g, b)    *)
(* triple per pixel in mode "RGB".                                         *)
(***************************************************************************)
Image(mode, size, px) == [mode |-> mode, size |-> size, px |-> px]
Bands(mode) == IF mode = "RGB" THEN 3 ELSE 1
GetPixel(im, px_x, px_y) == im.px[px_y * im.size[1] + px_x + 1]

\* PIL.Image.fromarray(a, mode) of a C-contiguous uint8 array.  The image
\* size is (shape[1], shape[0]); the array's buffer is then read as
\* width*height packed pixels of the mode.  For a 1-d array the size is
\* (1, shape[0]) in current Pillow, while Pillow before 1-d support indexes
\* shape[1] and raises IndexError (legacy); a 0-d array raises IndexError in
\* both.
FromArray(a, mode, legacy) ==
    LET nd == ndim(a)
        ndmax == IF mode = "L" THEN 2 ELSE 3
    IN  IF nd > ndmax THEN Raise("ValueError")
        ELSE IF nd = 0 \/ (nd = 1 /\ legacy) THEN Raise("IndexError")
        ELSE LET size == IF nd = 1 THEN <<1, a.shape[1]>> ELSE <<a.shape[2], a.shape[1]>>
                 n == size[1] * size[2]
                 bands == Bands(mode)
             IN  IF Len(a.data) < n * bands THEN Raise("ValueError")
                 ELSE Return(Image(mode, size,
                          [p \in 1..n |->
                              IF bands = 1 THEN a.data[p]
                              ELSE <<a.data[3 * p - 2], a.data[3 * p - 1], a.data[3 * p]>>]))

\* x.squeeze(): every axis of length 1 is removed.
Squeeze(a) == Array(SelectSeq(a.shape, LAMBDA d : d # 1), a.data)

(***************************************************************************)
(* array2pil                                                               *)
(***************************************************************************)
array2pil(a, legacy) ==
    IF ndim(a) = 2 THEN FromArray(a, "L", legacy)
    ELSE IF ndim(a) = 3 /\ a.shape[3] = 1 THEN FromArray(Squeeze(a), "L", legacy)
    ELSE IF ndim(a) = 3 THEN FromArray(a, "RGB", legacy)
    ELSE Raise("UnboundLocalError")

(***************************************************************************)
(* viz_segmentation_label: the colorizing (lines up to the optional save)  *)
(***************************************************************************)
NoColormap == [given |-> FALSE, val |-> <<>>]
Colormap(cm) == [given |-> TRUE, val |-> cm]

DefaultColormap == <<<<0, 0, 0>>, <<255, 79, 64>>, <<115, 173, 33>>, <<48, 126, 199>>>>

\* list[i] of a Python list: a negative index counts from the end.
ListIndex(list, i) ==
    IF 0 <= i /\ i < Len(list) THEN Return(list[i + 1])
    ELSE IF -Len(list) <= i /\ i < 0 THEN Return(list[Len(list) + i + 1])
    ELSE Raise("IndexError")

\* np.unique(a): the sorted distinct values.
RECURSIVE SortedSeq(_)
SortedSeq(S) ==
    IF S = {} THEN <<>>
    ELSE LET m == CHOOSE v \in S : \A w \in S : v <= w
         IN  <<m>> \o SortedSeq(S \ {m})

Unique(a) == SortedSeq({a.data[p] : p \in 1..Len(a.data)})

ToUint8(v) == v % 256

\* The color stored at every pixel, whatever its label.
PaintMaskEverywhere(viz, lab, uid, color) ==
    Array(viz.shape, [q \in 1..Len(viz.data) |-> color[((q - 1) % 3) + 1] % 256])

\* viz[lab == uid] = color, on an (h, w, 3) uint8 array.
PaintMask(viz, lab, uid, color) ==
    Array(viz.shape,
          [q \in 1..Len(viz.data) |->
              IF lab.data[((q - 1) \div 3) + 1] = uid
              THEN ToUint8(color[((q - 1) % 3) + 1])
              ELSE viz.data[q]])

\* for uid in uids: label_viz[label==uid] = colormap[uid]
RECURSIVE PaintAll(_, _, _, _)
PaintAll(viz, lab, cm, uids) ==
    IF uids = <<>> THEN Return(viz)
    ELSE LET color == ListIndex(cm, Head(uids))
         IN  IF color.kind = "raise" THEN color
             ELSE PaintAll(PaintMask(viz, lab, Head(uids), color.val), lab, cm, Tail(uids))

Colorize(lab, cmap, default) ==
    LET cm == IF cmap.given THEN cmap.val ELSE default
        zeros == Array(<<lab.shape[1], lab.shape[2], 3>>,
                       Zeros(lab.shape[1] * lab.shape[2] * 3))
        painted == PaintAll(zeros, lab, cm, Unique(lab))
    IN  IF painted.kind = "raise" THEN painted
        ELSE FromArray(painted.val, "RGB", FALSE)

(***************************************************************************)
(* viz_overlayed_segmentation_label: the compositing (lines up to the      *)
(* optional save)                                                          *)
(***************************************************************************)
OverlayDefaultColormap == <<<<127, 127, 127>>, <<255, 0, 0>>, <<0, 255, 0>>, <<0, 0, 255>>>>

\* img.convert("RGB"): a grey value becomes (v, v, v).
ConvertRGB(im) ==
    IF im.mode = "RGB" THEN im
    ELSE Image("RGB", im.size, [p \in 1..Len(im.px) |-> <<im.px[p], im.px[p], im.px[p]>>])

\* PIL.ImageChops.blend(im1, im2, alpha), alpha given in percent: per band
\* (UINT8)(in1 + alpha * (in2 - in1)); images of different sizes do not match.
Blend(im1, im2, alphaPct) ==
    IF im1.mode # im2.mode \/ im1.size # im2.size THEN Raise("ValueError")
    ELSE Return(Image(im1.mode, im1.size,
             [p \in 1..Len(im1.px) |->
                 [b \in 1..3 |->
                     ((100 - alphaPct) * im1.px[p][b] + alphaPct * im2.px[p][b]) \div 100]]))

Overlay(img, lab, cmap, alphaPct, legacy) ==
    LET base == array2pil(img, legacy)
    IN  IF base.kind = "raise" THEN base
        ELSE LET colored == Colorize(lab, cmap, OverlayDefaultColormap)
             IN  IF colored.kind = "raise" THEN colored
                 ELSE Blend(ConvertRGB(base.val), colored.val, alphaPct)

(***************************************************************************)
(* The optional save of both functions, on a shared file system.  A path   *)
(* is [given, dir, name]: dir is the sequence of the directory components  *)
(* of os.path.dirname(saveto).  The working directory <<>> always exists.  *)
(***************************************************************************)
NoPath == [given |-> FALSE, dir |-> <<>>, name |-> ""]
Path(dir, name) == [given |-> TRUE, dir |-> dir, name |-> name]
Front(s) == SubSeq(s, 1, Len(s) - 1)

\* pardir.strip() == "": no directory part, or one of white space only.
IsBlank(dir) == dir = <<>> \/ dir = <<" ">>

DirExists(d) == d = <<>> \/ d \in dirs

Callers == 1..MaxCallers

Finish(p, outcome) ==
    /\ out' = [out EXCEPT ![p] = outcome]
    /\ pc' = [pc EXCEPT ![p] = "done"]

\* Lines 144-155 and 157-161 (198-208 and 212-216): the image is built; an
\* exception ends the call; without a save path the image is returned.
Compute(p) ==
    /\ pc[p] = "compute"
    /\ \E legacy \in BOOLEAN :
        LET c == call[p]
            built == IF c.fn = "viz_segmentation_label"
                     THEN Colorize(c.label, c.colormap, DefaultColormap)
                     ELSE Overlay(c.img, c.label, c.colormap, c.alpha, legacy)
        IN  IF built.kind = "raise"
            THEN Finish(p, built) /\ UNCHANGED pic
            ELSE /\ pic' = [pic EXCEPT ![p] = built.val]
                 /\ IF ~c.saveto.given
                    THEN Finish(p, Return(built.val))
                    ELSE /\ pc' = [pc EXCEPT ![p] =
                                      IF IsBlank(c.saveto.dir) THEN "save" ELSE "exists"]
                         /\ UNCHANGED out
    /\ UNCHANGED <<call, made, wrote, dirs, file, otherVars>>

\* if not os.path.exists(pardir):
Exists(p) ==
    /\ pc[p] = "exists"
    /\ pc' = [pc EXCEPT ![p] = IF DirExists(call[p].saveto.dir) THEN "save" ELSE "makedirs"]
    /\ UNCHANGED <<call, out, pic, made, wrote, dirs, file, otherVars>>

\* os.makedirs(pardir): the parent's own parent is created first when it
\* is missing.
Makedirs(p) ==
    /\ pc[p] = "makedirs"
    /\ pc' = [pc EXCEPT ![p] =
                 IF DirExists(Front(call[p].saveto.dir)) THEN "mkdir" ELSE "mkdir_head"]
    /\ UNCHANGED <<call, out, pic, made, wrote, dirs, file, otherVars>>

\* os.makedirs(head) inside os.makedirs: a FileExistsError of this inner
\* call is caught; any other OSError propagates.
MkdirHead(p) ==
    /\ pc[p] = "mkdir_head"
    /\ LET head == Front(call[p].saveto.dir)
       IN  \/ /\ DirExists(head)
              /\ pc' = [pc EXCEPT ![p] = "mkdir"]
              /\ UNCHANGED <<out, made, dirs>>
           \/ /\ ~DirExists(head)
              /\ dirs' = dirs \cup {head}
              /\ made' = [made EXCEPT ![p] = @ \cup {head}]
              /\ pc' = [pc EXCEPT ![p] = "mkdir"]
              /\ UNCHANGED out
           \/ /\ ~DirExists(head)
              /\ Finish(p, Raise("OSError"))
              /\ UNCHANGED <<made, dirs>>
    /\ UNCHANGED <<call, pic, wrote, file, otherVars>>

\* os.mkdir(pardir), the last step of os.makedirs(pardir): exist_ok is False.
Mkdir(p) ==
    /\ pc[p] = "mkdir"
    /\ LET d == call[p].saveto.dir
       IN  \/ /\ DirExists(d)
              /\ Finish(p, Raise("FileExistsError"))
              /\ UNCHANGED <<made, dirs>>
           \/ /\ ~DirExists(d) /\ ~DirExists(Front(d))
              /\ Finish(p, Raise("FileNotFoundError"))
              /\ UNCHANGED <<made, dirs>>
           \/ /\ ~DirExists(d) /\ DirExists(Front(d))
              /\ dirs' = dirs \cup {d}
              /\ made' = [made EXCEPT ![p] = @ \cup {d}]
              /\ pc' = [pc EXCEPT ![p] = "save"]
              /\ UNCHANGED out
           \/ /\ ~DirExists(d) /\ DirExists(Front(d))
              /\ Finish(p, Raise("OSError"))
              /\ UNCHANGED <<made, dirs>>
    /\ UNCHANGED <<call, pic, wrote, file, otherVars>>

\* The image returned without being written.
SaveSkipped(p) ==
    /\ pc[p] = "save"
    /\ Finish(p, Return(pic[p]))
    /\ UNCHANGED <<call, pic, made, wrote, dirs, file, otherVars>>

\* image.save(saveto, "JPEG") and the return: the file is opened for
\* writing and the image encoded into it.  A failure of the open leaves the
\* file as it was; a failure while writing may leave it partly written.
Save(p) ==
    /\ pc[p] = "save"
    /\ \/ /\ ~DirExists(call[p].saveto.dir)
          /\ Finish(p, Raise("FileNotFoundError"))
          /\ UNCHANGED <<wrote, file>>
       \/ /\ DirExists(call[p].saveto.dir)
          /\ file' = "complete"
          /\ wrote' = [wrote EXCEPT ![p] = "complete"]
          /\ Finish(p, Return(pic[p]))
       \/ /\ DirExists(call[p].saveto.dir)
          /\ Finish(p, Raise("OSError"))
          /\ UNCHANGED <<wrote, file>>
       \/ /\ DirExists(call[p].saveto.dir)
          /\ file' = "partial"
          /\ wrote' = [wrote EXCEPT ![p] = "partial"]
          /\ Finish(p, Raise("OSError"))
    /\ UNCHANGED <<call, pic, made, dirs, otherVars>>

(***************************************************************************)
(* Inputs of the grid tiler.                                               *)
(***************************************************************************)
\* Pixel data: base + step * offset, as unsigned 8-bit values: all zero,
\* every pixel tagged with its own offset, and tags that wrap through 255.
PixelPatterns == {<<0, 0>>, <<1, 1>>, <<254, 1>>}
PixelData(n) ==
    {[p \in 1..n |-> (pat[1] + pat[2] * (p - 1)) % 256] : pat \in PixelPatterns}

\* Shapes of rank 0 .. MaxRank: the leading axes of (b, h, w, c, 1, 1, ...).
BatchShapes ==
    {[k \in 1..rank |-> IF k = 1 THEN b ELSE IF k = 2 THEN h ELSE IF k = 3 THEN w
                        ELSE IF k = 4 THEN c ELSE 1] :
        rank \in 0..MaxRank, b \in 0..MaxBatch, h \in 1..MaxSide, w \in 1..MaxSide,
        c \in 1..MaxSide}

BatchArrays == UNION {{Array(s, d) : d \in PixelData(Prod(s))} : s \in BatchShapes}

IdleGrid ==
    /\ imgs = Array(<<>>, <<0>>) /\ rows = 0 /\ cols = 0 /\ grid = Pending
IdleColor ==
    /\ label = Array(<<>>, <<0>>) /\ colormap = NoColormap /\ label_viz = Pending
IdlePil ==
    /\ x = Array(<<>>, <<0>>) /\ pil = Pending

IdleSave ==
    /\ call = <<>> /\ pc = <<>> /\ out = <<>> /\ pic = <<>>
    /\ made = <<>> /\ wrote = <<>> /\ dirs = {} /\ file = "absent"

GridInit ==
    /\ imgs \in BatchArrays
    /\ rows \in -1..MaxGrid
    /\ cols \in -1..MaxGrid
    /\ grid = Pending
    /\ IdleColor /\ IdlePil /\ IdleSave

CallGrid ==
    /\ grid = Pending
    /\ grid' = batch_of_images_to_grid(imgs, rows, cols)
    /\ UNCHANGED <<imgs, rows, cols, colorVars, pilVars, saveVars>>

GridNext == CallGrid

GridSpec == GridInit /\ [][GridNext]_vars

(***************************************************************************)
(* The colorizer called without a save path.                               *)
(***************************************************************************)
LabelShapes ==
    {<<h, w>> : h \in 1..MaxLabelPixels, w \in 1..MaxLabelPixels} \cap
    {s \in Seq(1..MaxLabelPixels) : Len(s) = 2 /\ s[1] * s[2] <= MaxLabelPixels}

\* Label values inside, above and below the index range of both colormaps.
LabelValues == {-5, -1, 0, 1, 3, 4, 5}

LabelArrays ==
    UNION {{Array(s, d) : d \in [1..(s[1] * s[2]) -> LabelValues]} : s \in LabelShapes}

Colormaps == {NoColormap, Colormap(<<<<0, 0, 0>>, <<255, 0, 0>>>>)}

ColorInit ==
    /\ label \in LabelArrays
    /\ colormap \in Colormaps
    /\ label_viz = Pending
    /\ IdleGrid /\ IdlePil /\ IdleSave

CallColorize ==
    /\ label_viz = Pending
    /\ label_viz' = Colorize(label, colormap, DefaultColormap)
    /\ UNCHANGED <<label, colormap, gridVars, pilVars, saveVars>>

ColorNext == CallColorize

ColorSpec == ColorInit /\ [][ColorNext]_vars

(***************************************************************************)
(* The image encoder.                                                      *)
(***************************************************************************)
EncShapes ==
    UNION {[1..rank -> 1..MaxEncSide] : rank \in 1..MaxEncRank}

EncArrays == UNION {{Array(s, d) : d \in PixelData(Prod(s))} : s \in EncShapes}

PilInit ==
    /\ x \in EncArrays
    /\ pil = Pending
    /\ IdleGrid /\ IdleColor /\ IdleSave

CallArray2Pil ==
    /\ pil = Pending
    /\ \E legacy \in BOOLEAN : pil' = array2pil(x, legacy)
    /\ UNCHANGED <<x, gridVars, colorVars, saveVars>>

PilNext == CallArray2Pil

PilSpec == PilInit /\ [][PilNext]_vars

(***************************************************************************)
(* Concurrent calls of the colorizer and the compositor that save to the   *)
(* same path.                                                              *)
(***************************************************************************)
SaveDirs == {<<>>, <<" ">>, <<"a">>, <<"a", "b">>}
InitialDirs == {{}, {<<"a">>}, {<<"a">>, <<"a", "b">>}}
SaveLabels == {Array(<<1, 1>>, <<1>>), Array(<<1, 1>>, <<5>>)}
SaveImages == {Array(<<1, 1>>, <<200>>), Array(<<1, 2, 1>>, <<10, 20>>)}
AlphaPercents == {50}

Calls(target, img, alphaPct) ==
    {[fn |-> fn, label |-> lab, colormap |-> NoColormap, img |-> img, alpha |-> alphaPct,
      saveto |-> path] :
        fn \in {"viz_segmentation_label", "viz_overlayed_segmentation_label"},
        lab \in SaveLabels,
        path \in {NoPath, Path(target, "out.jpg")}}

SaveInit ==
    /\ \E target \in SaveDirs, img \in SaveImages, alphaPct \in AlphaPercents :
           call \in [Callers -> Calls(target, img, alphaPct)]
    /\ pc = [p \in Callers |-> "compute"]
    /\ out = [p \in Callers |-> Pending]
    /\ pic = [p \in Callers |-> <<>>]
    /\ made = [p \in Callers |-> {}]
    /\ wrote = [p \in Callers |-> "nothing"]
    /\ dirs \in InitialDirs
    /\ file = "absent"
    /\ IdleGrid /\ IdleColor /\ IdlePil

SaveNext ==
    \E p \in Callers :
        \/ Compute(p)
        \/ Exists(p)
        \/ Makedirs(p)
        \/ MkdirHead(p)
        \/ Mkdir(p)
        \/ Save(p)

SaveSpec == SaveInit /\ [][SaveNext]_vars

(***************************************************************************)
(* Properties of the grid tiler.                                           *)
(***************************************************************************)
GridCalled == grid # Pending
ValidGridArgs == rows > 0 /\ cols > 0 /\ ndim(imgs) \in {3, 4}
BatchSize == imgs.shape[1]
ImgHeight == imgs.shape[2]
ImgWidth == imgs.shape[3]
Channels == IF ndim(imgs) = 4 THEN imgs.shape[4] ELSE 1

\* Pixel (py, px), channel k, of image i of the batch.
ImagePixel(i, py, px, k) ==
    At(imgs, IF ndim(imgs) = 4 THEN <<i, py, px, k>> ELSE <<i, py, px>>)

\* Pixel (py, px), channel k, of the grid's cell with row-major index i.
CellPixel(i, py, px, k) ==
    LET gy == (i \div cols) * ImgHeight + py
        gx == (i % cols) * ImgWidth + px
    IN  At(grid.val, IF ndim(imgs) = 4 THEN <<gy, gx, k>> ELSE <<gy, gx>>)

CellEqualsImage(i) ==
    \A py \in 0..(ImgHeight - 1), px \in 0..(ImgWidth - 1), k \in 0..(Channels - 1) :
        CellPixel(i, py, px, k) = ImagePixel(i, py, px, k)

CellIsZero(i) ==
    \A py \in 0..(ImgHeight - 1), px \in 0..(ImgWidth - 1), k \in 0..(Channels - 1) :
        CellPixel(i, py, px, k) = 0

AllPixelsDistinct ==
    \A p, q \in 1..Len(imgs.data) : p # q => imgs.data[p] # imgs.data[q]

\* C1: with rows, cols > 0 and a batch of rank 3 or 4, the call returns a
\* grid in which, for every i < min(b, rows*cols), the block of rows
\* [(i div cols)*h, +h) and columns [(i mod cols)*w, +w) equals image i pixel
\* for pixel and channel for channel.
C1_RowMajorPlacement ==
    (GridCalled /\ ValidGridArgs) =>
        /\ grid.kind = "return"
        /\ ndim(grid.val) = ndim(imgs) - 1
        /\ \A i \in 0..(Min(BatchSize, rows * cols) - 1) : CellEqualsImage(i)

C1_Witness ==
    /\ GridCalled /\ grid.kind = "return"
    /\ rows = 2 /\ cols = 2 /\ ndim(imgs) = 4
    /\ BatchSize = 4 /\ ImgHeight = 2 /\ ImgWidth = 2 /\ Channels = 2
    /\ AllPixelsDistinct
    /\ CellEqualsImage(3)
    /\ At(grid.val, <<3, 2, 1>>) = ImagePixel(3, 1, 0, 1)

C3_PaddingIsZero ==
    (GridCalled /\ ValidGridArgs /\ BatchSize < rows * cols) =>
        /\ grid.kind = "return"
        /\ \A i \in BatchSize..(rows * cols - 1) : CellIsZero(i)

C3_Witness ==
    /\ GridCalled /\ grid.kind = "return"
    /\ ValidGridArgs /\ rows = 2 /\ cols = 2 /\ BatchSize = 1
    /\ \A p \in 1..Len(imgs.data) : imgs.data[p] # 0
    /\ CellIsZero(1) /\ CellIsZero(2) /\ CellIsZero(3)

\* The batch's first n images, computed from the batch's elements.
FirstImages(a, n) ==
    LET per == Prod(Tail(a.shape))
    IN  Array(<<n>> \o Tail(a.shape), [p \in 1..(n * per) |-> a.data[p]])

\* C4: with b > rows*cols the call returns; its grid is the grid of the
\* batch's first rows*cols images alone, and every cell of the grid is one
\* of those images.
C4_ExcessImagesDropped ==
    (GridCalled /\ ValidGridArgs /\ BatchSize > rows * cols) =>
        /\ grid.kind = "return"
        /\ grid = batch_of_images_to_grid(FirstImages(imgs, rows * cols), rows, cols)
        /\ \A i \in 0..(rows * cols - 1) : CellEqualsImage(i)
        /\ Len(grid.val.data) = rows * cols * ImgHeight * ImgWidth * Channels

C4_Witness ==
    /\ GridCalled /\ grid.kind = "return"
    /\ ValidGridArgs /\ rows = 1 /\ cols = 2 /\ BatchSize = 4
    /\ AllPixelsDistinct
    /\ \A p \in 1..Len(grid.val.data) :
           grid.val.data[p] \in {imgs.data[q] : q \in 1..(2 * ImgHeight * ImgWidth * Channels)}

\* C5: every call with rows <= 0 or cols <= 0, and every call with an array
\* whose rank is not 3 or 4, ends in the InvalidArgument error (Python's
\* AssertionError) and in no other error.
C5_InvalidArgumentsRejected ==
    (GridCalled /\ ~ValidGridArgs) => grid = Raise("AssertionError")


(***************************************************************************)
(* Properties of the colorizer.                                            *)
(***************************************************************************)
ColorCalled == label_viz # Pending
ColormapInUse == IF colormap.given THEN colormap.val ELSE DefaultColormap
LabelAt(ly, lx) == At(label, <<ly, lx>>)
LabelValuesUsed == {label.data[p] : p \in 1..Len(label.data)}
AllLabelsValid == \A v \in LabelValuesUsed : 0 <= v /\ v < Len(ColormapInUse)

\* C6: for a label array whose values are all valid class indices of the
\* colormap in use, the colorizer returns an RGB image of width w and height
\* h whose pixel (x, y) is colormap[label[y][x]].
C6_PixelsPaintedByColormap ==
    (ColorCalled /\ AllLabelsValid) =>
        /\ label_viz.kind = "return"
        /\ label_viz.val.mode = "RGB"
        /\ label_viz.val.size = <<label.shape[2], label.shape[1]>>
        /\ \A ly \in 0..(label.shape[1] - 1), lx \in 0..(label.shape[2] - 1) :
               GetPixel(label_viz.val, lx, ly) = ColormapInUse[LabelAt(ly, lx) + 1]

C6_Witness ==
    /\ ColorCalled /\ AllLabelsValid /\ ~colormap.given
    /\ label.shape = <<2, 2>> /\ label.data = <<1, 0, 3, 1>>
    /\ label_viz.kind = "return"
    /\ GetPixel(label_viz.val, 0, 1) = <<48, 126, 199>>

\* C7: the colorizer raises IndexOutOfRange (Python's IndexError) whenever
\* the label array holds a value outside 0 .. len(colormap)-1, above the
\* range or below 0.
C7_OutOfRangeLabelRaises ==
    (ColorCalled /\ ~AllLabelsValid) => label_viz = Raise("IndexError")

(***************************************************************************)
(* Properties of the image encoder.                                        *)
(***************************************************************************)
PilCalled == pil # Pending

\* C8: an array of shape (h, w, 1), h >= 1 and w >= 1, is encoded as a
\* mode "L" image of width w and height h whose pixel (x, y) is the array's
\* value at (y, x, 0).
C8_SingleChannelRoundTrip ==
    (PilCalled /\ ndim(x) = 3 /\ x.shape[3] = 1) =>
        /\ pil.kind = "return"
        /\ pil.val.mode = "L"
        /\ pil.val.size = <<x.shape[2], x.shape[1]>>
        /\ \A py \in 0..(x.shape[1] - 1), px \in 0..(x.shape[2] - 1) :
               GetPixel(pil.val, px, py) = At(x, <<py, px, 0>>)


(***************************************************************************)
(* Properties of the saving calls.                                         *)
(***************************************************************************)
Failed(p) == out[p].kind = "raise"
Returned(p) == out[p].kind = "return"
NoEffect(p) == made[p] = {} /\ wrote[p] = "nothing"
FailedBeforeSave(p) ==
    Failed(p) /\ out[p].err \in {"IndexError", "ValueError", "UnboundLocalError"}

\* C9: a call with a save path never fails because the parent directory
\* already exists, whatever other callers do to that directory meanwhile.
C9_ParentDirCreationIdempotent ==
    \A p \in DOMAIN out : out[p] # Raise("FileExistsError")

\* C10 as claimed: a call that fails has created no directory and written
\* nothing of its file; a call with a save path that returns has written
\* its file.
C10_FailureLeavesNoEffect ==
    \A p \in DOMAIN out :
        /\ Failed(p) => NoEffect(p)
        /\ (Returned(p) /\ call[p].saveto.given) => wrote[p] = "complete"

\* C10 as amended: a call that fails returns no image; a call that fails
\* while the image is built (IndexOutOfRange in the colorizing, or another
\* error before the save) has created no directory and written nothing; a
\* call with a save path that returns has written its whole file before it
\* returns.  A call that fails with an IOError in the save may leave the
\* directories it created and a partly written file.
C10_Amended ==
    \A p \in DOMAIN out :
        /\ Failed(p) => out[p].val = <<>>
        /\ FailedBeforeSave(p) => NoEffect(p)
        /\ (Failed(p) /\ ~FailedBeforeSave(p)) =>
               out[p].err \in {"OSError", "FileExistsError", "FileNotFoundError"}
        /\ (Returned(p) /\ call[p].saveto.given) =>
               wrote[p] = "complete" /\ out[p].val = pic[p]
        /\ (Returned(p) /\ ~call[p].saveto.given) => NoEffect(p)

C10_Witness ==
    \E p, q \in DOMAIN out :
        /\ call[p].saveto.given /\ call[p].saveto.dir = <<"a", "b">>
        /\ Returned(p) /\ wrote[p] = "complete" /\ made[p] = {<<"a">>, <<"a", "b">>}
        /\ call[q].saveto.given /\ out[q] = Raise("IndexError") /\ NoEffect(q)

=============================================================================
